---- MODULE Spec2Model ----
(***************************************************************************)
(* Model of the customer scoring pipeline of quick_start.py:                *)
(*   main -> check_dependencies -> generate_sample_customer_data ->         *)
(*   perform_clv_analysis -> generate_retention_strategies -> summary.      *)
(*                                                                          *)
(* Real quantities are exact fixed-point integers:                          *)
(*   recency            in 1/40 day        (stored: 1/10 day, round(.,1))   *)
(*   monthly_spend      in 1/400 currency  (stored: cents, round(.,2))      *)
(*   noise draw         in 1/200                                            *)
(*   churn_score        in 1/12000         (stored: 1/1000, round(.,3))     *)
(*   predicted_lifespan in 1/2400 day                                       *)
(*   clv                stored in cents, round(.,2)                         *)
(* Python's round() is modelled as round-half-to-even on the exact value.   *)
(* The wall clock (datetime.now()) is counted in ticks, TicksPerDay ticks   *)
(* to a day.                                                                *)
(***************************************************************************)
EXTENDS Integers, Sequences, FiniteSets, TLC

VARIABLES
    pc,                   \* position of main()
    n_customers,          \* the record count N of the generation run
    rng_stream,           \* the draws np.random yields after seed(42), per customer
    now,                  \* the wall clock read by datetime.now(), in ticks
    clock_kind,           \* "steady": the clock only advances; "stepping": it
                          \* may also be set back or forward (NTP, DST, operator)
    customer_data,        \* the list of generated records (insertion order)
    analysis_results,     \* return value of perform_clv_analysis
    top_customers,        \* df.nlargest(10, 'predicted_clv')
    at_risk_valuable,     \* the at-risk high-value subset
    retention_strategies, \* return value of generate_retention_strategies
    sections,             \* console sections printed so far, in order
    exit_status,          \* process exit status (-1: still running)
    fault_at,             \* the stage in which the environment fails (a print
                          \* raising OSError, MemoryError, ...), or "none"
    first_run             \* record list of an earlier run with the same seed

vars == <<pc, n_customers, rng_stream, now, customer_data, analysis_results,
          top_customers, at_risk_valuable, retention_strategies, sections,
          exit_status, fault_at, first_run, clock_kind>>

(***************************************************************************)
(* Bounds of the model.                                                     *)
(***************************************************************************)
MaxN == 2          \* main pipeline: N ranges over -1..MaxN
MaxFrame == 11     \* analysis over frames of up to MaxFrame records
TicksPerDay == 2   \* clock resolution

(***************************************************************************)
(* Program constants.                                                       *)
(***************************************************************************)
TopK == 10         \* df.nlargest(10, ...)
HeadCount == 5     \* high_risk.head(5)

Min(a, b) == IF a < b THEN a ELSE b
Max(a, b) == IF a > b THEN a ELSE b
Abs(a) == IF a < 0 THEN -a ELSE a

(***************************************************************************)
(* round(x, k): x = n/d exactly, result in units of the k-th decimal.       *)
(***************************************************************************)
RoundHalfEven(n, d) ==
    LET q == n \div d
        r == n % d
    IN  IF 2 * r < d THEN q
        ELSE IF 2 * r > d THEN q + 1
        ELSE IF q % 2 = 0 THEN q ELSE q + 1

(***************************************************************************)
(* Multi-digit naturals (little-endian, base 1000) for the CLV product,     *)
(* which does not fit a machine integer of the model checker.               *)
(***************************************************************************)
Base == 1000

RECURSIVE BigFromNat(_)
BigFromNat(n) == IF n = 0 THEN <<>> ELSE <<n % Base>> \o BigFromNat(n \div Base)

RECURSIVE BigMulSmall(_, _, _)
BigMulSmall(b, k, carry) ==
    IF b = <<>> THEN BigFromNat(carry)
    ELSE LET t == Head(b) * k + carry
         IN  <<t % Base>> \o BigMulSmall(Tail(b), k, t \div Base)

RECURSIVE BigDivRem(_, _)
BigDivRem(b, d) ==
    IF b = <<>> THEN [q |-> <<>>, r |-> 0]
    ELSE LET hi  == BigDivRem(Tail(b), d)
             cur == hi.r * Base + Head(b)
         IN  [q |-> <<cur \div d>> \o hi.q, r |-> cur % d]

RECURSIVE BigToNat(_)
BigToNat(b) == IF b = <<>> THEN 0 ELSE Head(b) + Base * BigToNat(Tail(b))

\* -1, 0, 1 as a < b, a = b, a > b
RECURSIVE BigCmp(_, _)
BigCmp(a, b) ==
    IF a = <<>> /\ b = <<>> THEN 0
    ELSE LET ha == IF a = <<>> THEN 0 ELSE Head(a)
             hb == IF b = <<>> THEN 0 ELSE Head(b)
             hi == BigCmp(IF a = <<>> THEN <<>> ELSE Tail(a),
                          IF b = <<>> THEN <<>> ELSE Tail(b))
         IN  IF hi # 0 THEN hi
             ELSE IF ha < hb THEN -1 ELSE IF ha > hb THEN 1 ELSE 0

(***************************************************************************)
(* round(a*b*c / (d1*d2)) for naturals a, b, c and divisors d1, d2, half    *)
(* to even: q = floor, then 2*a*b*c against (2q+1)*d1*d2.                    *)
(***************************************************************************)
RoundMulDiv(a, b, c, d1, d2) ==
    LET prod == BigMulSmall(BigMulSmall(BigFromNat(a), b, 0), c, 0)
        q    == BigToNat(BigDivRem(BigDivRem(prod, d1).q, d2).q)
        mid  == BigMulSmall(BigMulSmall(BigFromNat(2 * q + 1), d1, 0), d2, 0)
        side == BigCmp(BigMulSmall(prod, 2, 0), mid)
    IN  IF side < 0 THEN q
        ELSE IF side > 0 THEN q + 1
        ELSE IF q % 2 = 0 THEN q ELSE q + 1

(***************************************************************************)
(* One customer's draws, in the order the generator consumes them.          *)
(* offset: randint(30, 1095); monthly_spend: lognormal; poisson: the        *)
(* Poisson(3) draw behind frequency; recency: exponential; email_opens:     *)
(* binomial(20, 0.3); support_tickets, app_sessions: Poisson; noise:        *)
(* random() in [0, 1).                                                      *)
(***************************************************************************)
Draw(o, m, p, r, e, s, a, u) ==
    [offset |-> o, monthly_spend |-> m, poisson |-> p, recency |-> r,
     email_opens |-> e, support_tickets |-> s, app_sessions |-> a, noise |-> u]

\* customer_id = f"CUST_{i+1:06d}": the six zero-padded decimal digits of i+1
CustomerId(i) == [k \in 1..6 |-> ((i + 1) \div (10 ^ (6 - k))) % 10]

\* acquisition_date = datetime.now() - timedelta(days=offset)
AcquisitionDate(read1, offset) == read1 - offset * TicksPerDay

\* tenure_days = (datetime.now() - acquisition_date).days  (timedelta.days floors)
TenureDays(read2, acquisition_date) == (read2 - acquisition_date) \div TicksPerDay

\* frequency = np.random.poisson(lam=3) + 1
Frequency(poisson) == poisson + 1

\* avg_order_value = monthly_spend / frequency if frequency > 0 else 0, in cents
AvgOrderValue(monthly_spend, frequency) ==
    IF frequency > 0 THEN RoundHalfEven(monthly_spend, 4 * frequency) ELSE 0

\* variant: the recency effect is not capped at 1
ChurnScore_NoRecencyCap(recency, tenure_days, frequency, support_tickets, noise) ==
      recency
    + 40 * Max(0, 60 - tenure_days)
    + 480 * Max(0, 5 - frequency)
    + 400 * Min(support_tickets, 3)
    + 12 * noise

(***************************************************************************)
(* churn_score, in 1/12000:                                                 *)
(*   0.3*min(recency/90, 1)          = min(recency40, 3600) / 12000         *)
(*   0.2*max(0, (60 - tenure)/60)    = 40*max(0, 60 - tenure) / 12000       *)
(*   0.2*max(0, (5 - frequency)/5)   = 480*max(0, 5 - frequency) / 12000    *)
(*   0.1*min(support_tickets/3, 1)   = 400*min(support_tickets, 3) / 12000  *)
(*   0.2*random()                    = 12*noise200 / 12000                  *)
(***************************************************************************)
ChurnScore(recency, tenure_days, frequency, support_tickets, noise) ==
      Min(recency, 3600)
    + 40 * Max(0, 60 - tenure_days)
    + 480 * Max(0, 5 - frequency)
    + 400 * Min(support_tickets, 3)
    + 12 * noise

\* round(churn_score, 3), in 1/1000
ChurnProbability(churn_score) == RoundHalfEven(churn_score, 12)

\* 'High' if churn_score > 0.7 else 'Medium' if churn_score > 0.4 else 'Low'
RiskSegment(churn_score) ==
    IF churn_score > 8400 THEN "High"
    ELSE IF churn_score > 4800 THEN "Medium" ELSE "Low"

\* predicted_lifespan = max(30, 365 * (1 - churn_score)), in 1/2400 day
PredictedLifespan(churn_score) == Max(30 * 2400, 73 * (12000 - churn_score))

\* variant: 1 - churn_score / 0.5
DiscountFactor_Divided(churn_score) == 24000 - 4 * churn_score

\* the discount factor (1 - churn_score * 0.5), in 1/24000
DiscountFactor(churn_score) == 24000 - churn_score

\* round(monthly_spend * (predicted_lifespan / 30) * (1 - churn_score * 0.5), 2),
\* in cents: m/400 * L/72000 * F/24000 * 100
PredictedClv(monthly_spend, churn_score) ==
    LET L == PredictedLifespan(churn_score)
        F == DiscountFactor(churn_score)
        sign == IF (monthly_spend < 0) # (F < 0) THEN -1 ELSE 1
    IN  sign * RoundMulDiv(Abs(monthly_spend), L, Abs(F), 72000, 96000)

(***************************************************************************)
(* The loop body of generate_sample_customer_data for customer i (0-based)  *)
(* with draws d; read1 and read2 are the two datetime.now() values.         *)
(***************************************************************************)
MakeRecord(i, d, read1, read2) ==
    LET acquisition_date == AcquisitionDate(read1, d.offset)
        frequency        == Frequency(d.poisson)
        tenure_days      == TenureDays(read2, acquisition_date)
        churn_score      == ChurnScore(d.recency, tenure_days, frequency,
                                       d.support_tickets, d.noise)
    IN  [customer_id       |-> CustomerId(i),
         acquisition_date  |-> acquisition_date,
         tenure_days       |-> tenure_days,
         monthly_spend     |-> RoundHalfEven(d.monthly_spend, 4),
         frequency         |-> frequency,
         recency           |-> RoundHalfEven(d.recency, 4),
         avg_order_value   |-> AvgOrderValue(d.monthly_spend, frequency),
         email_opens       |-> d.email_opens,
         support_tickets   |-> d.support_tickets,
         app_sessions      |-> d.app_sessions,
         churn_probability |-> ChurnProbability(churn_score),
         predicted_clv     |-> PredictedClv(d.monthly_spend, churn_score),
         risk_segment      |-> RiskSegment(churn_score)]

(***************************************************************************)
(* pandas operations used by the analysis.                                  *)
(***************************************************************************)
RECURSIVE SeqSum(_)
SeqSum(s) == IF s = <<>> THEN 0 ELSE Head(s) + SeqSum(Tail(s))

ClvColumn(df) == [i \in 1..Len(df) |-> df[i].predicted_clv]

RemoveAt(s, k) == [j \in 1..(Len(s) - 1) |-> IF j < k THEN s[j] ELSE s[j + 1]]

\* variant: the first k rows, unsorted
NLargest_Head(df, k) == SubSeq(df, 1, IF k < Len(df) THEN k ELSE Len(df))

\* df.nlargest(k, 'predicted_clv'): descending, ties in order of appearance
RECURSIVE NLargest(_, _)
NLargest(df, k) ==
    IF k <= 0 \/ df = <<>> THEN <<>>
    ELSE LET best == CHOOSE i \in 1..Len(df) :
                        \A j \in 1..Len(df) :
                            \/ df[j].predicted_clv < df[i].predicted_clv
                            \/ df[j].predicted_clv = df[i].predicted_clv /\ i <= j
         IN  <<df[best]>> \o NLargest(RemoveAt(df, best), k - 1)

\* [['customer_id', 'predicted_clv', 'risk_segment', 'monthly_spend']]
TopColumns(r) ==
    [customer_id |-> r.customer_id, predicted_clv |-> r.predicted_clv,
     risk_segment |-> r.risk_segment, monthly_spend |-> r.monthly_spend]

TopCustomers(df) ==
    LET top == NLargest(df, TopK)
    IN  [i \in 1..Len(top) |-> TopColumns(top[i])]

RECURSIVE SortAsc(_)
SortAsc(s) ==
    IF s = <<>> THEN <<>>
    ELSE LET least == CHOOSE i \in 1..Len(s) : \A j \in 1..Len(s) : s[i] <= s[j]
         IN  <<s[least]>> \o SortAsc(RemoveAt(s, least))

\* 5 * df['predicted_clv'].quantile(0.8), linear interpolation, for a
\* non-empty column: position (n-1)*0.8 = lo + rem/5
Quantile80Times5(values) ==
    LET sorted == SortAsc(values)
        n   == Len(sorted)
        lo  == (4 * (n - 1)) \div 5
        rem == (4 * (n - 1)) % 5
        hi  == IF rem = 0 THEN lo ELSE lo + 1
    IN  5 * sorted[lo + 1] + rem * (sorted[hi + 1] - sorted[lo + 1])

\* df[(df['predicted_clv'] > quantile(0.8)) & (df['churn_probability'] > 0.6)]
AtRiskValuable(df) ==
    LET q5 == Quantile80Times5(ClvColumn(df))
        Test(r) == 5 * r.predicted_clv > q5 /\ r.churn_probability > 600
    IN  SelectSeq(df, Test)

\* df[df['risk_segment'] == 'High']
HighRisk(df) == LET Test(r) == r.risk_segment = "High" IN SelectSeq(df, Test)

\* DataFrame.head(k)
HeadOf(df, k) == SubSeq(df, 1, Min(k, Len(df)))

\* the value returned by perform_clv_analysis; avg_clv is the exact mean,
\* kept as the pair sum/count
AnalysisResults(df) ==
    [total_customers |-> Len(df),
     avg_clv         |-> [sum |-> SeqSum(ClvColumn(df)), count |-> Len(df)],
     high_risk_count |-> Len(HighRisk(df)),
     at_risk_value   |-> SeqSum(ClvColumn(AtRiskValuable(df)))]

(***************************************************************************)
(* generate_retention_strategies: the first matching rule wins.             *)
(* recency is the stored value, in 1/10 day.                                *)
(***************************************************************************)
ReEngagement == "Re-engagement email series with personalized offers"
Proactive == "Proactive customer success outreach"
MultiChannel == "Multi-channel communication (SMS, push notifications)"
Loyalty == "Loyalty program enrollment with exclusive benefits"

\* variant: the support-ticket rule is tried before the recency rule
Strategy_TicketsFirst(recency, support_tickets, email_opens) ==
    IF support_tickets > 2 THEN Proactive
    ELSE IF recency > 600 THEN ReEngagement
    ELSE IF email_opens < 5 THEN MultiChannel
    ELSE Loyalty

Strategy(recency, support_tickets, email_opens) ==
    IF recency > 600 THEN ReEngagement
    ELSE IF support_tickets > 2 THEN Proactive
    ELSE IF email_opens < 5 THEN MultiChannel
    ELSE Loyalty

StrategyEntry(customer) ==
    [customer_id |-> customer.customer_id,
     clv         |-> customer.predicted_clv,
     churn_risk  |-> customer.churn_probability,
     strategy    |-> Strategy(customer.recency, customer.support_tickets,
                              customer.email_opens)]

\* variant: head(5) taken before the High-risk filter
Processed_HeadFirst(df) == HighRisk(HeadOf(df, HeadCount))

\* the customers the loop runs over: high_risk.head(5)
Processed(df) == HeadOf(HighRisk(df), HeadCount)

RetentionStrategies(df) ==
    LET processed == Processed(df)
    IN  [i \in 1..Len(processed) |-> StrategyEntry(processed[i])]

(***************************************************************************)
(* Input domains.                                                           *)
(***************************************************************************)
OffsetDraws == {30, 59, 60, 1094}          \* randint(30, 1095)
SpendDraws == {3, 97879, 800001}           \* 0.0075, 244.6975, 2000.0025
PoissonDraws == {0, 3, 8}                  \* frequency 1, 4, 9
RecencyDraws == {0, 2391, 2403, 3590, 28000}   \* 0, 59.775, 60.075, 89.75, 700 days
EmailDraws == {0, 20}
TicketDraws == {0, 2, 3, 5}
SessionDraws == {10}
NoiseDraws == {0, 41, 100, 199}            \* 0, 0.205, 0.5, 0.995

DrawSpace ==
    {Draw(o, m, p, r, e, t, a, u) :
        o \in OffsetDraws, m \in SpendDraws, p \in PoissonDraws, r \in RecencyDraws,
        e \in EmailDraws, t \in TicketDraws, a \in SessionDraws, u \in NoiseDraws}

\* a High-risk customer for each strategy rule, a Medium, a Low and one whose
\* churn score lies just above the High threshold
DrawProfiles ==
    {Draw(30, 97879, 0, 2800, 10, 3, 10, 150),
     Draw(30, 120001, 0, 2400, 10, 3, 12, 199),
     Draw(30, 40003, 0, 2399, 4, 2, 8, 199),
     Draw(30, 60000, 0, 2400, 5, 2, 9, 199),
     Draw(400, 97879, 3, 3600, 6, 1, 10, 100),
     Draw(1094, 800001, 8, 0, 20, 0, 10, 0),
     Draw(30, 97879, 0, 3590, 6, 3, 10, 41)}

\* frames for the analysis: High-risk and Low-risk customers in any order,
\* with at most one Medium-risk customer among them
HighProfile == Draw(30, 120001, 0, 2400, 10, 3, 12, 199)
MediumProfile == Draw(400, 97879, 3, 3600, 6, 1, 10, 100)
LowProfile == Draw(1094, 800001, 8, 0, 20, 0, 10, 0)
FrameProfiles == {HighProfile, MediumProfile, LowProfile}

FrameStreams(n) ==
    LET plain == [1..n -> {HighProfile, LowProfile}]
    IN  plain \cup {[s EXCEPT ![i] = MediumProfile] : s \in plain, i \in 1..n}

\* how far the wall clock moves between the two datetime.now() reads of one
\* loop iteration: it is not monotonic (it may be stepped back) and the
\* iteration may straddle any delay
ClockSteps(kind) == IF kind = "steady" THEN {0, 1} ELSE {-1, 0, 1, TicksPerDay}

\* how far the wall clock has moved when the program is run a second time
RunGaps == {0, 1, TicksPerDay}

Streams(n, profiles) == [1..Max(n, 0) -> profiles]

(***************************************************************************)
(* main()                                                                   *)
(***************************************************************************)
\* variant: the handler prints the error and main returns normally
HandleException_NoExit(printed) ==
    /\ sections' = printed \o <<"error">>
    /\ pc' = "exit"
    /\ exit_status' = 0

\* except Exception as e: print error, sys.exit(1)
HandleException(printed) ==
    /\ sections' = printed \o <<"error">>
    /\ pc' = "exit"
    /\ exit_status' = 1

\* print_header(); if not check_dependencies(): ... sys.exit(1)
CheckDependencies ==
    /\ pc = "check_dependencies"
    /\ \E all_available \in BOOLEAN :
        IF all_available
        THEN /\ sections' = Append(sections, "dependency check")
             /\ pc' = "begin_generation"
             /\ UNCHANGED exit_status
        ELSE /\ sections' = sections \o <<"dependency check", "missing dependencies">>
             /\ pc' = "exit"
             /\ exit_status' = 1
    /\ UNCHANGED <<n_customers, rng_stream, now, customer_data, analysis_results,
                   top_customers, at_risk_valuable, retention_strategies, first_run, fault_at, clock_kind>>

\* generate_sample_customer_data, up to the loop: header, np.random.seed(42)
BeginGeneration ==
    /\ pc = "begin_generation"
    /\ sections' = Append(sections, "data generation")
    /\ customer_data' = <<>>
    /\ pc' = "generate"
    /\ UNCHANGED <<n_customers, rng_stream, now, analysis_results, top_customers,
                   at_risk_valuable, retention_strategies, exit_status, first_run, fault_at, clock_kind>>

\* one iteration of: for i in range(n_customers)
GenerateRecord ==
    /\ pc = "generate"
    /\ Len(customer_data) < n_customers
    /\ \E step \in ClockSteps(clock_kind) :
        LET i     == Len(customer_data)
            read1 == now
            read2 == now + step
        IN  /\ customer_data' =
                   Append(customer_data, MakeRecord(i, rng_stream[i + 1], read1, read2))
            /\ now' = read2
    /\ UNCHANGED <<pc, n_customers, rng_stream, analysis_results, top_customers,
                   at_risk_valuable, retention_strategies, sections, exit_status,
                   first_run, fault_at, clock_kind>>

\* DataFrame(customer_data) has the columns of its records: none when the list
\* is empty, and then df['predicted_clv'] raises KeyError
HasColumns(data) == data # <<>>

\* after the loop: df = pd.DataFrame(customer_data); prints; return df
FinishGeneration ==
    /\ pc = "generate"
    /\ Len(customer_data) >= n_customers
    /\ LET fault == fault_at = "data generation" IN
        IF fault \/ ~HasColumns(customer_data)
        THEN HandleException(sections)
        ELSE /\ pc' = "analysis"
             /\ UNCHANGED <<sections, exit_status>>
    /\ UNCHANGED <<n_customers, rng_stream, now, customer_data, analysis_results,
                   top_customers, at_risk_valuable, retention_strategies, first_run, fault_at, clock_kind>>

\* perform_clv_analysis(df)
PerformClvAnalysis ==
    /\ pc = "analysis"
    /\ LET fault == fault_at = "CLV analysis" IN
        IF fault \/ ~HasColumns(customer_data)
        THEN /\ HandleException(Append(sections, "CLV analysis"))
             /\ UNCHANGED <<analysis_results, top_customers, at_risk_valuable>>
        ELSE /\ sections' = Append(sections, "CLV analysis")
             /\ top_customers' = TopCustomers(customer_data)
             /\ at_risk_valuable' = AtRiskValuable(customer_data)
             /\ analysis_results' = <<AnalysisResults(customer_data)>>
             /\ pc' = "strategies"
             /\ UNCHANGED exit_status
    /\ UNCHANGED <<n_customers, rng_stream, now, customer_data, retention_strategies,
                   first_run, fault_at, clock_kind>>

\* generate_retention_strategies(df)
GenerateRetentionStrategies ==
    /\ pc = "strategies"
    /\ LET fault == fault_at = "retention strategies" IN
        IF fault \/ ~HasColumns(customer_data)
        THEN /\ HandleException(Append(sections, "retention strategies"))
             /\ UNCHANGED retention_strategies
        ELSE /\ sections' = Append(sections, "retention strategies")
             /\ retention_strategies' = RetentionStrategies(customer_data)
             /\ pc' = "summary"
             /\ UNCHANGED exit_status
    /\ UNCHANGED <<n_customers, rng_stream, now, customer_data, analysis_results,
                   top_customers, at_risk_valuable, first_run, fault_at, clock_kind>>

\* the executive summary prints; main returns
ExecutiveSummary ==
    /\ pc = "summary"
    /\ LET fault == fault_at = "executive summary" IN
        IF fault
        THEN HandleException(Append(sections, "executive summary"))
        ELSE /\ sections' = Append(sections, "executive summary")
             /\ pc' = "exit"
             /\ exit_status' = 0
    /\ UNCHANGED <<n_customers, rng_stream, now, customer_data, analysis_results,
                   top_customers, at_risk_valuable, retention_strategies, first_run, fault_at, clock_kind>>

\* the program is started again: same seed, same N, a later wall clock
RunAgain ==
    /\ pc = "analysis"
    /\ first_run = <<>>
    /\ first_run' = <<customer_data>>
    /\ \E gap \in RunGaps : now' = now + gap
    /\ customer_data' = <<>>
    /\ sections' = <<"dependency check">>
    /\ pc' = "begin_generation"
    /\ UNCHANGED <<n_customers, rng_stream, analysis_results, top_customers,
                   at_risk_valuable, retention_strategies, exit_status, fault_at,
                   clock_kind>>

NoResults ==
    /\ analysis_results = <<>>
    /\ top_customers = <<>>
    /\ at_risk_valuable = <<>>
    /\ retention_strategies = <<>>
    /\ exit_status = -1
    /\ first_run = <<>>

FaultStages ==
    {"none", "data generation", "CLV analysis", "retention strategies",
     "executive summary"}

\* the whole program, for N in -1..MaxN
Init ==
    /\ pc = "check_dependencies"
    /\ fault_at \in FaultStages
    /\ clock_kind = "stepping"
    /\ n_customers \in -1..MaxN
    /\ rng_stream \in Streams(n_customers, DrawProfiles)
    /\ now = 0
    /\ customer_data = <<>>
    /\ sections = <<>>
    /\ NoResults

Next ==
    \/ CheckDependencies
    \/ BeginGeneration
    \/ GenerateRecord
    \/ FinishGeneration
    \/ PerformClvAnalysis
    \/ GenerateRetentionStrategies
    \/ ExecutiveSummary

Spec == Init /\ [][Next]_vars

\* one customer, its draws ranging over the whole input domain
InitRecord ==
    /\ fault_at = "none"
    /\ clock_kind = "stepping"
    /\ pc = "begin_generation"
    /\ n_customers = 1
    /\ rng_stream \in Streams(1, DrawSpace)
    /\ now = 0
    /\ customer_data = <<>>
    /\ sections = <<"dependency check">>
    /\ NoResults

NextRecord == BeginGeneration \/ GenerateRecord \/ FinishGeneration

SpecRecord == InitRecord /\ [][NextRecord]_vars

\* the record generated from each frame profile when the clock stands still;
\* only customer_id depends on the position
FrameRecord == [d \in FrameProfiles |-> MakeRecord(0, d, 0, 0)]

\* the analysis stages over frames of up to MaxFrame generated records
InitFrame ==
    /\ fault_at = "none"
    /\ clock_kind = "steady"
    /\ pc = "analysis"
    /\ n_customers \in 1..MaxFrame
    /\ rng_stream \in FrameStreams(n_customers)
    /\ now = 0
    /\ customer_data =
           [i \in 1..n_customers |->
               [FrameRecord[rng_stream[i]] EXCEPT !.customer_id = CustomerId(i - 1)]]
    /\ sections = <<"dependency check", "data generation">>
    /\ NoResults

NextFrame == PerformClvAnalysis \/ GenerateRetentionStrategies

SpecFrame == InitFrame /\ [][NextFrame]_vars

\* two runs of the generator with the same seed and N, under a steady clock
InitRuns ==
    /\ fault_at = "none"
    /\ clock_kind = "steady"
    /\ pc = "begin_generation"
    /\ n_customers \in 1..MaxN
    /\ rng_stream \in Streams(n_customers, DrawProfiles)
    /\ now = 0
    /\ customer_data = <<>>
    /\ sections = <<"dependency check">>
    /\ NoResults

NextRuns == BeginGeneration \/ GenerateRecord \/ FinishGeneration \/ RunAgain

SpecRuns == InitRuns /\ [][NextRuns]_vars

(***************************************************************************)
(* Properties.                                                              *)
(***************************************************************************)
Range(s) == {s[i] : i \in 1..Len(s)}

Records == Range(customer_data)

\* the unrounded churn score behind the i-th record
ScoreOf(i) ==
    ChurnScore(rng_stream[i].recency, customer_data[i].tenure_days,
               customer_data[i].frequency, rng_stream[i].support_tickets,
               rng_stream[i].noise)

\* C1: in every generated record the stored risk_segment agrees with the
\* stored churn_probability (3 decimals): High iff > 0.7, Medium iff in
\* (0.4, 0.7], Low iff <= 0.4.
C1_SegmentMatchesStoredChurn ==
    \A r \in Records :
        /\ r.risk_segment = "High" <=> r.churn_probability > 700
        /\ r.risk_segment = "Medium" <=>
               (400 < r.churn_probability /\ r.churn_probability <= 700)
        /\ r.risk_segment = "Low" <=> r.churn_probability <= 400

\* C2: a second run with the same seed and the same N produces the same
\* records as the first, field by field, whatever the wall clock shows.
C2_RunsIdentical ==
    (first_run # <<>> /\ pc = "analysis") => customer_data = first_run[1]

Strategies == {ReEngagement, Proactive, MultiChannel, Loyalty}

\* the record a strategy entry was made for
CustomerOf(entry) == CHOOSE r \in Records : r.customer_id = entry.customer_id

\* C4: every processed customer gets exactly one of the four strategy
\* strings, by first match: recency > 60, else support_tickets > 2, else
\* email_opens < 5, else the loyalty program; recency=70, support_tickets=0,
\* email_opens=10 gets the re-engagement string.
C4_FirstMatchStrategy ==
    /\ \A k \in 1..Len(retention_strategies) :
        LET e == retention_strategies[k]
            c == CustomerOf(e)
        IN  /\ e.strategy \in Strategies
            /\ c.recency > 600 => e.strategy = ReEngagement
            /\ (c.recency <= 600 /\ c.support_tickets > 2) => e.strategy = Proactive
            /\ (c.recency <= 600 /\ c.support_tickets <= 2 /\ c.email_opens < 5)
                   => e.strategy = MultiChannel
            /\ (c.recency <= 600 /\ c.support_tickets <= 2 /\ c.email_opens >= 5)
                   => e.strategy = Loyalty
    /\ Strategy(700, 0, 10) = ReEngagement

\* a processed customer who matches rule 1 and rule 2, and one for whom only
\* the fallback is left
C4_Witness ==
    /\ \E k \in 1..Len(retention_strategies) :
        /\ CustomerOf(retention_strategies[k]).recency > 600
        /\ CustomerOf(retention_strategies[k]).support_tickets > 2
    /\ \E k \in 1..Len(retention_strategies) :
        retention_strategies[k].strategy = Loyalty

FullOrder ==
    <<"dependency check", "data generation", "CLV analysis", "retention strategies",
      "executive summary">>

IsPrefix(s, t) == Len(s) <= Len(t) /\ \A i \in 1..Len(s) : s[i] = t[i]

\* the stage sections printed, without the two failure notices
StageSections ==
    LET Test(x) == x \notin {"error", "missing dependencies"}
    IN  SelectSeq(sections, Test)

\* C5: a missing dependency ends the process with a non-zero status before
\* any stage starts; a stage that raises is the last one to run and the
\* process ends with a non-zero status; only a run in which every stage
\* succeeds prints dependency check, data generation, CLV analysis, retention
\* strategies, executive summary, in that order, and ends with status 0.
C5_StagesInOrderOrExit ==
    /\ IsPrefix(StageSections, FullOrder)
    /\ (pc = "exit") <=> (exit_status # -1)
    /\ "missing dependencies" \in Range(sections) =>
        /\ sections = <<"dependency check", "missing dependencies">>
        /\ pc = "exit" /\ exit_status = 1
        /\ customer_data = <<>> /\ analysis_results = <<>>
        /\ retention_strategies = <<>>
    /\ "error" \in Range(sections) =>
        /\ sections[Len(sections)] = "error"
        /\ sections = Append(StageSections, "error")
        /\ pc = "exit" /\ exit_status = 1
        /\ "CLV analysis" \notin Range(sections) => analysis_results = <<>>
        /\ sections[Len(sections) - 1] # "executive summary" =>
               (retention_strategies = <<>> /\ "executive summary" \notin Range(sections))
        /\ sections[Len(sections) - 1] \in {"data generation", "CLV analysis"} =>
               "retention strategies" \notin Range(sections)
    /\ exit_status = 0 => sections = FullOrder
    /\ "executive summary" \in Range(sections) =>
        /\ Len(analysis_results) = 1
        /\ SubSeq(sections, 1, 5) = FullOrder

\* the CLV analysis raises: the strategies and the summary never run
C5_Witness ==
    /\ sections = <<"dependency check", "data generation", "CLV analysis", "error">>
    /\ pc = "exit" /\ exit_status = 1
    /\ customer_data # <<>>

\* C6 as claimed: some draws (tenure_days being the drawn offset) give a
\* churn_probability below 0 or above 1.
C6_SomeDrawOutOfRange ==
    \E d \in DrawSpace \cup Range(rng_stream) :
        LET churn == ChurnProbability(
                        ChurnScore(d.recency, d.offset, Frequency(d.poisson),
                                   d.support_tickets, d.noise))
        IN  churn < 0 \/ churn > 1000

\* C6, amended: whenever tenure_days is the drawn offset, the churn
\* probability lies in [0, 1], and is at most 0.86.
C6_ChurnConfined ==
    \A i \in 1..Len(customer_data) :
        customer_data[i].tenure_days = rng_stream[i].offset =>
            /\ 0 <= customer_data[i].churn_probability
            /\ customer_data[i].churn_probability <= 860
            /\ 0 <= ScoreOf(i) /\ ScoreOf(i) <= 12000

\* every sub-term at its maximum: recency >= 90 days, tenure 30, frequency 1,
\* three or more tickets, the largest noise
C6_Witness ==
    \E i \in 1..Len(customer_data) :
        /\ customer_data[i].tenure_days = rng_stream[i].offset
        /\ rng_stream[i].recency > 3600
        /\ rng_stream[i].support_tickets > 3
        /\ customer_data[i].frequency = 1
        /\ customer_data[i].tenure_days = 30
        /\ customer_data[i].churn_probability = 859

C10_TenureIsOffset ==
    \A i \in 1..Len(customer_data) :
        /\ customer_data[i].tenure_days = rng_stream[i].offset
        /\ 30 <= customer_data[i].tenure_days
        /\ customer_data[i].tenure_days <= 1094

AnalysisDone == Len(analysis_results) = 1

InTop(r) == \E k \in 1..Len(top_customers) : top_customers[k].customer_id = r.customer_id

SortedDescending ==
    \A i, j \in 1..Len(top_customers) :
        i < j => top_customers[i].predicted_clv >= top_customers[j].predicted_clv

NothingBetterLeftOut ==
    \A r \in Records :
        ~InTop(r) =>
            \A k \in 1..Len(top_customers) :
                r.predicted_clv <= top_customers[k].predicted_clv

\* C8 as claimed: K is a parameter, and for whichever K is asked the selection
\* holds min(K, N) records, sorted by predicted_clv descending, none left out
\* being worth more than one taken.
C8_TopKForAnyK ==
    AnalysisDone =>
        \A K \in 0..MaxFrame :
            /\ Len(top_customers) = Min(K, Len(customer_data))
            /\ SortedDescending
            /\ NothingBetterLeftOut

\* C8, amended: K is fixed at 10; the selection holds min(10, N) records of
\* the collection, sorted by predicted_clv descending, none left out being
\* worth more than one taken.
C8_TopTen ==
    AnalysisDone =>
        /\ Len(top_customers) = Min(TopK, Len(customer_data))
        /\ \A k \in 1..Len(top_customers) :
            \E r \in Records : top_customers[k] = TopColumns(r)
        /\ \A i, j \in 1..Len(top_customers) :
            i # j => top_customers[i].customer_id # top_customers[j].customer_id
        /\ SortedDescending
        /\ NothingBetterLeftOut

\* more than ten records; the first one is worth less than each of the ten
\* taken, which are of different values
C8_Witness ==
    /\ AnalysisDone
    /\ Len(customer_data) > TopK
    /\ Len(top_customers) = TopK
    /\ Cardinality({top_customers[k].predicted_clv : k \in 1..TopK}) >= 2
    /\ ~InTop(customer_data[1])
    /\ customer_data[1].predicted_clv < top_customers[TopK].predicted_clv

HighIndexes == {i \in 1..Len(customer_data) : customer_data[i].risk_segment = "High"}

\* C9: the strategy list has min(5, H) entries, H the number of High-risk
\* records; entry k is made from the k-th High-risk record in insertion order
\* and carries its customer_id, predicted_clv and churn_probability; no
\* record of another segment gets a strategy.
C9_FirstFiveHighRisk ==
    IF pc = "summary"
    THEN /\ Len(retention_strategies) = Min(HeadCount, Cardinality(HighIndexes))
         /\ \A k \in 1..Len(retention_strategies) :
            \E i \in HighIndexes :
                /\ Cardinality({j \in HighIndexes : j < i}) = k - 1
                /\ retention_strategies[k].customer_id = customer_data[i].customer_id
                /\ retention_strategies[k].clv = customer_data[i].predicted_clv
                /\ retention_strategies[k].churn_risk = customer_data[i].churn_probability
         /\ \A k \in 1..Len(retention_strategies) :
            CustomerOf(retention_strategies[k]).risk_segment = "High"
    ELSE retention_strategies = <<>>

\* more than five High-risk records, other records among the first five
C9_Witness ==
    /\ pc = "summary"
    /\ Cardinality(HighIndexes) > HeadCount
    /\ customer_data[1].risk_segment # "High"
    /\ customer_data[3].risk_segment # "High"
    /\ Len(retention_strategies) = HeadCount

====
